---------------------------- MODULE Spec2Model ----------------------------
(***************************************************************************)
(* Model of package simstore (simhash storage, Manku/Jain/Sarma section 3, *)
(* hamming distance 3): Store, SmallStore3 and their helpers.              *)
(*                                                                         *)
(* A uint64 is a sequence of 16 hexadecimal digits, most significant       *)
(* first, so that <<13,14,10,13, ...>> reads as 0xdead...  All of &, |, ^, *)
(* &^, <<, >> and < are computed on that representation bit for bit, with  *)
(* the Go semantics of a shift by 64 or more (the result is 0).            *)
(***************************************************************************)
EXTENDS Integers, Sequences, FiniteSets

----------------------------------------------------------------------------
(* uint64 arithmetic                                                        *)

Digit == 0..15

Bit(a, k) == (a \div (2 ^ k)) % 2

And4 == [a \in Digit |-> [b \in Digit |->
            Bit(a,0)*Bit(b,0) + 2*Bit(a,1)*Bit(b,1)
          + 4*Bit(a,2)*Bit(b,2) + 8*Bit(a,3)*Bit(b,3)]]

Xor4 == [a \in Digit |-> [b \in Digit |->
            ((Bit(a,0)+Bit(b,0)) % 2) + 2*((Bit(a,1)+Bit(b,1)) % 2)
          + 4*((Bit(a,2)+Bit(b,2)) % 2) + 8*((Bit(a,3)+Bit(b,3)) % 2)]]

Or4 == [a \in Digit |-> [b \in Digit |-> a + b - And4[a][b]]]

Pop4 == [a \in Digit |-> Bit(a,0) + Bit(a,1) + Bit(a,2) + Bit(a,3)]

Idx == 1..16

\* Op(v), with v evaluated once
With(v, Op(_)) == CHOOSE r \in {Op(x) : x \in {v}} : TRUE

Zero64 == [k \in Idx |-> 0]

AND(a, b) == [k \in Idx |-> And4[a[k]][b[k]]]

OR(a, b) == [k \in Idx |-> Or4[a[k]][b[k]]]

XOR(a, b) == [k \in Idx |-> Xor4[a[k]][b[k]]]

NOT(a) == [k \in Idx |-> 15 - a[k]]

ANDNOT(a, b) == AND(a, NOT(b))

\* digit k of a, 0 outside the word
Dig(a, k) == IF k \in Idx THEN a[k] ELSE 0

\* a << n for a shift count n >= 0 (a count of 64 or more gives 0)
SHL(a, n) ==
    LET q == n \div 4
        r == n % 4
    IN  IF r = 0 THEN [k \in Idx |-> Dig(a, k + q)]
        ELSE [k \in Idx |-> ((Dig(a, k + q) * (2 ^ r)) % 16)
                            + (Dig(a, k + q + 1) \div (2 ^ (4 - r)))]

\* a >> n for a shift count n >= 0 (a count of 64 or more gives 0)
SHR(a, n) ==
    LET q == n \div 4
        r == n % 4
    IN  IF r = 0 THEN [k \in Idx |-> Dig(a, k - q)]
        ELSE [k \in Idx |-> (Dig(a, k - q) \div (2 ^ r))
                            + ((Dig(a, k - q - 1) * (2 ^ (4 - r))) % 16)]

\* a < b as unsigned integers
RECURSIVE ltFrom(_, _, _)
ltFrom(a, b, k) ==
    IF k > 16 THEN FALSE
    ELSE IF a[k] = b[k] THEN ltFrom(a, b, k + 1)
    ELSE a[k] < b[k]

LT(a, b) == ltFrom(a, b, 1)

GE(a, b) == ~LT(a, b)

RECURSIVE PopFrom(_, _)
PopFrom(a, k) == IF k > 16 THEN 0 ELSE Pop4[a[k]] + PopFrom(a, k + 1)

\* bits.Popcnt
Popcnt(a) == PopFrom(a, 1)

distance(v1, v2) == Popcnt(XOR(v1, v2))

----------------------------------------------------------------------------
(* masks of Store.Add / Store.Find / unshuffle                              *)

mask3 == <<15,15,15,15, 15,15,15,0, 0,0,0,0, 0,0,0,0>>   \* 0xfffffff000000000

m2 == <<0,0,0,0, 15,15,15,0, 0,0,0,0, 0,0,0,0>>      \* 0x0000fff000000000

keep1 == <<15,15,15,15, 0,0,0,0, 0,0,15,15, 15,15,15,15>>   \* 0xffff000000ffffff
low1 == <<0,0,0,0, 0,0,0,15, 15,15,0,0, 0,0,0,0>>    \* 0x0000000fff000000

keep2 == <<15,15,15,15, 0,0,0,15, 15,15,0,0, 0,15,15,15>>   \* 0xffff000fff000fff
low2 == <<0,0,0,0, 0,0,0,0, 0,0,15,15, 15,0,0,0>>    \* 0x0000000000fff000

keep3 == <<15,15,15,15, 0,0,0,15, 15,15,15,15, 15,0,0,0>>   \* 0xffff000ffffff000
low3 == <<0,0,0,0, 0,0,0,0, 0,0,0,0, 0,15,15,15>>    \* 0x0000000000000fff

prefixMask == <<15,15,15,15, 0,0,0,0, 0,0,0,0, 0,0,0,0>>  \* 0xffff000000000000

----------------------------------------------------------------------------
(* the block permutations of Store.Add and Store.Find                       *)

\* p = (sig & 0xffff000000ffffff) | (sig & 0x0000fff000000000 >> 12) | (sig & 0x0000000fff000000 << 12)
\* (in Go &, << and >> have the same precedence and associate to the left)
perm1(sig) == OR(OR(AND(sig, keep1), SHR(AND(sig, m2), 12)), SHL(AND(sig, low1), 12))

\* perm2 with the shift counts of perm1
perm2Shift12(sig) == OR(OR(AND(sig, keep2), SHR(AND(sig, m2), 12)), SHL(AND(sig, low2), 12))

\* p = (sig & 0xffff000fff000fff) | (sig & 0x0000fff000000000 >> 24) | (sig & 0x0000000000fff000 << 24)
perm2(sig) == OR(OR(AND(sig, keep2), SHR(AND(sig, m2), 24)), SHL(AND(sig, low2), 24))

\* p = (sig & 0xffff000ffffff000) | (sig & 0x0000fff000000000 >> 36) | (sig & 0x0000000000000fff << 36)
perm3(sig) == OR(OR(AND(sig, keep3), SHR(AND(sig, m2), 36)), SHL(AND(sig, low3), 36))

\* sig = (sig << 16) | (sig >> (64 - 16))
rotate16(sig) == OR(SHL(sig, 16), SHR(sig, 64 - 16))

\* the four values p of one round of the loop
round(sig) == <<sig, perm1(sig), perm2(sig), perm3(sig)>>


\* the values p of the loop "for i := 0; i < 4; i++", in the order t = 0, 1, ...
RECURSIVE permLoop(_, _)
permLoop(sig, i) ==
    IF i >= 4 THEN << >>
    ELSE round(sig) \o With(rotate16(sig), LAMBDA next : permLoop(next, i + 1))

\* permuted(sig)[t + 1] is the value handled with s.rhashes[t]
permuted(sig) == permLoop(sig, 0)

\* sig = (sig & m1) | (sig & m2 >> shift) | (sig & m3 << shift)
unswap(sig, shift) ==
    With(SHR(m2, shift), LAMBDA m3 :
        LET m1 == ANDNOT(NOT(Zero64), OR(m2, m3))
        IN  OR(OR(AND(sig, m1), SHR(AND(sig, m2), shift)), SHL(AND(sig, m3), shift)))

\* unshuffle that rotates back before it swaps back
unshuffleRotateFirst(sig, t) ==
    LET t4 == t % 4
        shift == 12 * t4
    IN  With(OR(SHR(sig, 16 * (t \div 4)), SHL(sig, 64 - (16 * (t \div 4)))), LAMBDA sig1 :
            unswap(sig1, shift))

unshuffle(sig, t) ==
    LET t4 == t % 4
        shift == 12 * t4
    IN  With(unswap(sig, shift), LAMBDA sig1 :
            OR(SHR(sig1, 16 * (t \div 4)), SHL(sig1, 64 - (16 * (t \div 4)))))

unshuffleList(sigs, t) ==
    With(sigs, LAMBDA l : [i \in 1..Len(l) |-> With(l[i], LAMBDA x : unshuffle(x, t))])

----------------------------------------------------------------------------
(* sort.Search, sort.Sort, table, u64slice, unique                          *)

\* sort.Search(len(u), func(i int) bool { return u[i] >= key }) on Go
\* indices 0..len(u)-1; u[h] of the code is u[h + 1] here.  The function is
\* the binary search of package sort whether or not u is sorted.
RECURSIVE searchLoop(_, _, _, _)
searchLoop(u, key, i, j) ==
    IF i < j
    THEN LET h == (i + j) \div 2
         IN  IF ~GE(u[h + 1], key) THEN searchLoop(u, key, h + 1, j)
                                   ELSE searchLoop(u, key, i, h)
    ELSE i

sortSearch(u, key) == searchLoop(u, key, 0, Len(u))

\* u64scan with "distance(u[i], sig) < d"
RECURSIVE u64scanStrict(_, _, _, _, _)
u64scanStrict(u, sig, mask, d, i) ==
    IF i < Len(u) /\ AND(u[i + 1], mask) = AND(sig, mask)
    THEN (IF distance(u[i + 1], sig) < d THEN <<u[i + 1]>> ELSE << >>)
         \o u64scanStrict(u, sig, mask, d, i + 1)
    ELSE << >>

\* u64scan without the test of the distance
RECURSIVE u64scanAll(_, _, _, _, _)
u64scanAll(u, sig, mask, d, i) ==
    IF i < Len(u) /\ AND(u[i + 1], mask) = AND(sig, mask)
    THEN <<u[i + 1]>> \o u64scanAll(u, sig, mask, d, i + 1)
    ELSE << >>

\* the loop "for i < len(u) && u[i]&mask == prefix" of u64slice.find
RECURSIVE u64scan(_, _, _, _, _)
u64scan(u, sig, mask, d, i) ==
    IF i < Len(u) /\ AND(u[i + 1], mask) = AND(sig, mask)
    THEN (IF distance(u[i + 1], sig) <= d THEN <<u[i + 1]>> ELSE << >>)
         \o u64scan(u, sig, mask, d, i + 1)
    ELSE << >>

\* u64slice.find
u64find(u, sig, mask, d) ==
    With(AND(sig, mask), LAMBDA prefix :
        With(sortSearch(u, prefix), LAMBDA i : u64scan(u, sig, mask, d, i)))

hashesOf(t) == [i \in 1..Len(t) |-> t[i].hash]

\* the loop "for i < len(t) && t[i].hash == sig" of table.find
RECURSIVE tablescan(_, _, _)
tablescan(t, sig, i) ==
    IF i < Len(t) /\ t[i + 1].hash = sig
    THEN <<t[i + 1].doc>> \o tablescan(t, sig, i + 1)
    ELSE << >>

\* table.find
tablefind(t, sig) ==
    With(hashesOf(t), LAMBDA h :
        With(sortSearch(h, sig), LAMBDA i : tablescan(t, sig, i)))

\* the permutations of 1..n
Orders(n) == {f \in [1..n -> 1..n] : \A a, b \in 1..n : f[a] = f[b] => a = b}

\* sort.Sort(t) for a table: sort.Sort is not stable, so every arrangement of
\* t that is ascending by hash is a possible outcome
sortTable(t) ==
    {[i \in 1..Len(t) |-> t[f[i]]] : f \in
        {g \in Orders(Len(t)) :
            \A a \in 1..(Len(t) - 1) : ~LT(t[g[a + 1]].hash, t[g[a]].hash)}}

RECURSIVE insertU64(_, _)
insertU64(x, u) ==
    IF u = << >> THEN <<x>>
    ELSE IF LT(Head(u), x) THEN <<Head(u)>> \o insertU64(x, Tail(u))
    ELSE <<x>> \o u

\* sort.Sort(u) for a u64slice: equal values are indistinguishable, the
\* ascending arrangement is unique
RECURSIVE sortU64(_)
sortU64(u) == IF u = << >> THEN << >> ELSE insertU64(Head(u), sortU64(Tail(u)))

\* unique: the keys of the map built from ids.  The returned slice lists them
\* in the iteration order of the map, which Go leaves unspecified; the result
\* is represented by the set of its elements (each occurs once).
unique(ids) == {ids[i] : i \in 1..Len(ids)}

----------------------------------------------------------------------------
(* inputs                                                                   *)

\* the word whose set bits are the bit numbers in S (bit 0 least significant)
bitsWord(S) ==
    [k \in Idx |-> LET b == 4 * (16 - k)
                   IN  (IF b \in S THEN 1 ELSE 0) + (IF b + 1 \in S THEN 2 ELSE 0)
                     + (IF b + 2 \in S THEN 4 ELSE 0) + (IF b + 3 \in S THEN 8 ELSE 0)]

P0 == <<13,14,10,13, 11,14,14,15, 12,10,15,14, 11,10,11,14>>   \* 0xdeadbeefcafebabe

flip(S) == XOR(P0, bitsWord(S))

\* fingerprints given to Add: P0 and a smaller neighbour at distance 1, which
\* shares the 28-bit prefix of P0 in 15 of the 16 tables
AddSigs == {flip({}), flip({5})}

\* fingerprints given to Find, by the bits in which they differ from P0
QueryDiffs ==
    { {}, {0}, {1, 2, 3}, {63, 47, 31}, {3, 15, 27}, {13, 25, 37},
      {0, 20, 40}, {5, 20, 40, 60}, {0, 1, 2, 5} }

Queries == {flip(S) : S \in QueryDiffs}

Docs == {"a", "b"}

\* the most Add calls on one index
MaxEntries == 2

\* the most GOMAXPROCS considered
MaxProcs == 2

----------------------------------------------------------------------------
(* state                                                                    *)

VARIABLES
    impl,       \* "generic": src/simstore.go, "uint64": src/unnamed/part_000
    hint,       \* the argument hashes of New3
    docids,     \* Store.docids
    rhashes,    \* Store.rhashes: [nil |-> the interface is nil, u |-> the u64slice]
    panicked,   \* a run-time panic has ended the program
    finished,   \* history: Store.Finish has returned at least once
    clean,      \* history: Finish has returned and no Add was called since
    added,      \* history: the (hash, doc) pairs given to Add
    ret,        \* the last call when it was Find: its argument sig, its result
                \* docs as a bag, and the value of ids after unique
    tables,     \* SmallStore3.tables: tables[i] maps a prefix to its table (absent: nil)
    finishes,   \* history: calls of SmallStore3.Finish: 0, 1, or 2 for two and more
    procs,      \* runtime.GOMAXPROCS(0)
    pc,         \* position of the goroutine that runs Store.Finish
    fi,         \* the loop variable i of Store.Finish
    lim,        \* number of elements in the channel l
    wg,         \* the counter of the sync.WaitGroup
    wst,        \* wst[t]: position of the goroutine started for table t
    leaving,    \* goroutines that have executed l.leave() and not yet wg.Done()
    before,     \* history: docids and rhashes when Finish was entered
    sorts,      \* history: sorts[t] counts the calls s.rhashes[t].finish()
    calc        \* the arguments and results of the permutation functions

storeVars == <<impl, hint, docids, rhashes, panicked, finished, clean, added, ret>>

finishVars == <<procs, pc, fi, lim, wg, wst, leaving, before, sorts>>

vars == <<impl, hint, docids, rhashes, panicked, finished, clean, added, ret,
          tables, finishes, procs, pc, fi, lim, wg, wst, leaving, before, sorts, calc>>

Tbl == 0..15

noBag == [d \in Docs |-> 0]

noRet == [op |-> "none", sig |-> Zero64, ids |-> {}, docs |-> noBag]

nilStore == [nil |-> TRUE, u |-> << >>]

noTables == [i \in 0..3 |-> [p \in {} |-> << >>]]

\* NewU64Slice
NewU64Slice(hashes) == [nil |-> FALSE, u |-> << >>]

\* New3: the inner stores are created only when hashes # 0
New3(hashes) ==
    [docids |-> << >>,
     rhashes |-> [t \in Tbl |-> IF hashes # 0 THEN NewU64Slice(hashes) ELSE nilStore]]

idleFinish ==
    /\ pc = "idle"
    /\ fi = 0
    /\ lim = 0
    /\ wg = 0
    /\ wst = [t \in Tbl |-> "none"]
    /\ leaving = 0
    /\ before = New3(0)
    /\ sorts = [t \in Tbl |-> 0]

noCalc == [stage |-> "none", x |-> Zero64, t |-> 0, p |-> Zero64, u |-> Zero64]

----------------------------------------------------------------------------
(* Store                                                                    *)

\* Add with a test that rejects the call once Finish has returned
AddGuarded(sig, doc) ==
    /\ ~panicked
    /\ pc = "idle"
    /\ Len(docids) < MaxEntries
    /\ IF finished \/ \E t \in Tbl : rhashes[t].nil
       THEN /\ panicked' = TRUE
            /\ UNCHANGED <<docids, rhashes>>
       ELSE /\ docids' = Append(docids, [hash |-> sig, doc |-> doc])
            /\ \E ps \in {permuted(sig)} :
                    rhashes' = [t \in Tbl |-> [rhashes[t] EXCEPT !.u = Append(@, ps[t + 1])]]
            /\ UNCHANGED panicked
    /\ added' = added \cup {[hash |-> sig, doc |-> doc]}
    /\ clean' = FALSE
    /\ ret' = noRet
    /\ UNCHANGED <<impl, hint, finished, tables, finishes, calc>>
    /\ UNCHANGED finishVars

\* Store.Add: append to docids, then s.rhashes[t].add(p) for t = 0..15; the
\* first call on a nil u64store is a nil dereference
Add(sig, doc) ==
    /\ ~panicked
    /\ pc = "idle"
    /\ Len(docids) < MaxEntries
    /\ docids' = Append(docids, [hash |-> sig, doc |-> doc])
    /\ IF \E t \in Tbl : rhashes[t].nil
       THEN /\ panicked' = TRUE
            /\ UNCHANGED rhashes
       ELSE /\ \E ps \in {permuted(sig)} :
                    rhashes' = [t \in Tbl |-> [rhashes[t] EXCEPT !.u = Append(@, ps[t + 1])]]
            /\ UNCHANGED panicked
    /\ added' = added \cup {[hash |-> sig, doc |-> doc]}
    /\ clean' = FALSE
    /\ ret' = noRet
    /\ UNCHANGED <<impl, hint, finished, tables, finishes, calc>>
    /\ UNCHANGED finishVars

\* u64slice.finish on every inner store
finishAll(rh) == [t \in Tbl |-> [rh[t] EXCEPT !.u = sortU64(@)]]

\* Store.Finish from call to return: sort.Sort(s.docids), then one goroutine
\* per inner store, joined by wg.Wait().  src/simstore.go returns at once on
\* an empty store, src/unnamed/part_000 has no such test.
Finish ==
    /\ ~panicked
    /\ pc = "idle"
    /\ IF impl = "generic" /\ Len(docids) = 0
       THEN /\ finished' = TRUE
            /\ clean' = TRUE
            /\ UNCHANGED <<docids, rhashes, panicked>>
       ELSE /\ docids' \in sortTable(docids)
            /\ IF \E t \in Tbl : rhashes[t].nil
               THEN /\ panicked' = TRUE
                    /\ UNCHANGED <<rhashes, finished, clean>>
               ELSE /\ rhashes' = finishAll(rhashes)
                    /\ finished' = TRUE
                    /\ clean' = TRUE
                    /\ UNCHANGED panicked
    /\ ret' = noRet
    /\ UNCHANGED <<impl, hint, added, tables, finishes, calc>>
    /\ UNCHANGED finishVars

\* the slice ids of Store.Find before unique: for t = 0..15 the hits of
\* s.rhashes[t].find(p, mask3, 3), unshuffled
RECURSIVE findIds(_, _, _)
findIds(rh, ps, t) ==
    IF t > 15 THEN << >>
    ELSE unshuffleList(u64find(rh[t].u, ps[t + 1], mask3, 3), t) \o findIds(rh, ps, t + 1)

\* the slice docs of Store.Find as a bag: docids.find(v) appended for every v
\* of unique(ids)
findDocs(d, ids) ==
    With([v \in ids |-> tablefind(d, v)], LAMBDA found :
        [doc \in Docs |->
            Cardinality({h \in UNION {{<<v, i>> : i \in 1..Len(found[v])} : v \in ids} :
                            found[h[1]][h[2]] = doc})])

\* the bag of a slice returned by unique
uniqueBag(b) == [doc \in Docs |-> IF b[doc] > 0 THEN 1 ELSE 0]

\* Store.Find on non-nil inner stores: src/simstore.go returns docs,
\* src/unnamed/part_000 returns unique(docids)
findResult(im, d, rh, sig) ==
    With(permuted(sig), LAMBDA ps :
        With(unique(findIds(rh, ps, 0)), LAMBDA ids :
            With(findDocs(d, ids), LAMBDA docs :
                [op |-> "Find", sig |-> sig, ids |-> ids,
                 docs |-> IF im = "generic" THEN docs ELSE uniqueBag(docs)])))

\* Store.Find.  src/simstore.go returns nil on an empty store; elsewhere a
\* nil inner store is a nil dereference.
Find(sig) ==
    /\ ~panicked
    /\ pc = "idle"
    /\ IF impl = "generic" /\ Len(docids) = 0
       THEN /\ ret' = [noRet EXCEPT !.op = "Find", !.sig = sig]
            /\ UNCHANGED panicked
       ELSE IF \E t \in Tbl : rhashes[t].nil
       THEN /\ panicked' = TRUE
            /\ ret' = noRet
       ELSE /\ ret' = findResult(impl, docids, rhashes, sig)
            /\ UNCHANGED panicked
    /\ UNCHANGED <<impl, hint, docids, rhashes, finished, clean, added, tables, finishes, calc>>
    /\ UNCHANGED finishVars

\* the capacity hints given to New3: none, and a nonzero one
Hints == {0, 8}

Init ==
    /\ impl \in {"generic", "uint64"}
    /\ hint \in Hints
    /\ docids = New3(hint).docids
    /\ rhashes = New3(hint).rhashes
    /\ panicked = FALSE
    /\ finished = FALSE
    /\ clean = FALSE
    /\ added = {}
    /\ ret = noRet
    /\ tables = noTables
    /\ finishes = 0
    /\ procs = 1
    /\ idleFinish
    /\ calc = noCalc

Next ==
    \/ \E sig \in AddSigs, doc \in Docs : Add(sig, doc)
    \/ Finish
    \/ \E sig \in Queries : Find(sig)

Spec == Init /\ [][Next]_vars

----------------------------------------------------------------------------
(* properties of Store                                                      *)

sortedU64(u) == \A i \in 1..(Len(u) - 1) : ~LT(u[i + 1], u[i])

sortedStore == /\ sortedU64(hashesOf(docids))
               /\ \A t \in Tbl : sortedU64(rhashes[t].u)

\* C1: after Add calls followed by Finish, Find(Q) contains every document
\* that was added with a fingerprint at distance at most 3 from Q.
Recall ==
    (ret.op = "Find" /\ clean) =>
        \A e \in added : distance(e.hash, ret.sig) <= 3 => ret.docs[e.doc] >= 1

\* two documents share a fingerprint at distance exactly 3 from the query
\* and both are found
RecallWitness ==
    /\ ret.op = "Find"
    /\ clean
    /\ \E e1, e2 \in added :
          /\ e1.hash = e2.hash
          /\ e1.doc # e2.doc
          /\ distance(e1.hash, ret.sig) = 3
          /\ ret.docs[e1.doc] >= 1
          /\ ret.docs[e2.doc] >= 1

\* C2: after Add calls followed by Finish, every document in Find(Q) was
\* added with some fingerprint at distance at most 3 from Q, and every
\* fingerprint recovered by unshuffle was added and is at distance at most 3.
NoFalsePositive ==
    (ret.op = "Find" /\ clean) =>
        /\ \A d \in Docs : ret.docs[d] >= 1 =>
              \E e \in added : e.doc = d /\ distance(e.hash, ret.sig) <= 3
        /\ \A v \in ret.ids :
              /\ distance(v, ret.sig) <= 3
              /\ \E e \in added : e.hash = v

\* a stored fingerprint at distance 4 shares the 28-bit prefix of the query
\* in table 0 and is left out, while a neighbour at distance 3 is returned
NoFalsePositiveWitness ==
    /\ ret.op = "Find"
    /\ clean
    /\ \E e1, e2 \in added :
          /\ distance(e1.hash, ret.sig) >= 4
          /\ AND(e1.hash, mask3) = AND(ret.sig, mask3)
          /\ ret.docs[e1.doc] = 0
          /\ distance(e2.hash, ret.sig) = 3
          /\ ret.docs[e2.doc] = 1

\* C3: on a finished Store no document occurs more than once in Find(Q).
Deduplicated == (ret.op = "Find" /\ clean) => \A d \in Docs : ret.docs[d] <= 1

\* C5: a Store created with the capacity hint 0 accepts Add, Finish and Find
\* without failing.
ZeroHintPermitted == hint = 0 => ~panicked

\* C6 as stated: once Finish has run an Add is rejected and leaves docids as
\* it is, so no call that returns makes docids grow on a finished index.
AddAfterFinishRejected == [][(finished /\ ~panicked') => Len(docids') = Len(docids)]_vars

\* C6 as amended: Finish makes no difference to Add.  A call fails exactly
\* when the inner stores are nil (hint 0); on a Store with inner stores no
\* call fails, before or after Finish, and every Add appends one entry to
\* docids and one value to each inner store.
AddIgnoresFinish ==
    [][/\ panicked' => hint = 0
       /\ Len(docids') > Len(docids) =>
             /\ docids' = Append(docids, docids'[Len(docids')])
             /\ panicked' <=> hint = 0
             /\ hint # 0 => \A t \in Tbl :
                   /\ Len(rhashes'[t].u) = Len(docids')
                   /\ SubSeq(rhashes'[t].u, 1, Len(docids)) = rhashes[t].u]_vars

\* an Add after Finish was accepted: the index is finished and not sorted
AddAfterFinishWitness ==
    /\ finished
    /\ ~panicked
    /\ ~clean
    /\ ~sortedStore

----------------------------------------------------------------------------
(* the permutation functions on their own                                   *)

\* the words with exactly one bit set
OneBit == {bitsWord({b}) : b \in 0..63}

Counting == <<0,1,2,3, 4,5,6,7, 8,9,10,11, 12,13,14,15>>   \* 0x0123456789abcdef

PermInputs == OneBit \cup {Counting, P0, Zero64, NOT(Zero64)}

\* the value p computed for table calc.t by Store.Add and Store.Find
Shuffle ==
    /\ calc.stage = "in"
    /\ calc' = [calc EXCEPT !.stage = "shuffled", !.p = permuted(calc.x)[calc.t + 1]]
    /\ UNCHANGED <<tables, finishes>>
    /\ UNCHANGED storeVars
    /\ UNCHANGED finishVars

\* Store.unshuffle applied to that value
Unshuffle ==
    /\ calc.stage = "shuffled"
    /\ calc' = [calc EXCEPT !.stage = "done", !.u = unshuffle(calc.p, calc.t)]
    /\ UNCHANGED <<tables, finishes>>
    /\ UNCHANGED storeVars
    /\ UNCHANGED finishVars

InitPerm ==
    /\ impl = "generic"
    /\ hint = 8
    /\ docids = New3(hint).docids
    /\ rhashes = New3(hint).rhashes
    /\ panicked = FALSE
    /\ finished = FALSE
    /\ clean = FALSE
    /\ added = {}
    /\ ret = noRet
    /\ tables = noTables
    /\ finishes = 0
    /\ procs = 1
    /\ idleFinish
    /\ \E x \in PermInputs, t \in Tbl : calc = [noCalc EXCEPT !.stage = "in", !.x = x, !.t = t]

NextPerm == Shuffle \/ Unshuffle

SpecPerm == InitPerm /\ [][NextPerm]_vars

\* C7: unshuffle(p, t) = x for the value p computed for table t from x.
RoundTrip == calc.stage = "done" => calc.u = calc.x

\* a round trip through one of the tables 1..3, where the right rotation is
\* by 0 and the left shift by 64, and the swap has moved bits
RoundTripWitness ==
    /\ calc.stage = "done"
    /\ calc.t \in 1..3
    /\ calc.p # calc.x
    /\ calc.u = calc.x

\* x rotated left by 16 * i bits, digit by digit
rot16(x, i) == [k \in Idx |-> x[((k - 1 + 4 * i) % 16) + 1]]

\* x with bits 36..47 exchanged with the 12 bits that lie 12 * j bits below
mix(x, j) ==
    [k \in Idx |-> IF k \in 5..7 THEN x[k + 3 * j]
                   ELSE IF k - 3 * j \in 5..7 THEN x[k - 3 * j]
                   ELSE x[k]]

\* C8 as stated: the value for table 4i+j is rot16^i(mix_j(x)), the swap
\* applied to x itself and the rotation after it.
SwapThenRotate ==
    calc.stage # "in" => calc.p = rot16(mix(calc.x, calc.t % 4), calc.t \div 4)

\* C8 as amended: the value for table 4i+j is mix_j(rot16^i(x)), the word
\* rotated left by 16*i bits first and the swap applied to the rotated word.
RotateThenSwap ==
    calc.stage # "in" => calc.p = mix(rot16(calc.x, calc.t \div 4), calc.t % 4)

\* a table with i >= 1 and j >= 1 for which the two orders give different values
RotateThenSwapWitness ==
    /\ calc.stage = "shuffled"
    /\ calc.t \div 4 >= 1
    /\ calc.t % 4 >= 1
    /\ calc.p = mix(rot16(calc.x, calc.t \div 4), calc.t % 4)
    /\ calc.p # rot16(mix(calc.x, calc.t % 4), calc.t \div 4)

----------------------------------------------------------------------------
(* SmallStore3                                                              *)

\* prefix := (sig & 0xffff000000000000) >> (64 - 16)
prefixOf(sig) == SHR(AND(sig, prefixMask), 64 - 16)

\* s.tables[i][prefix], nil when nothing was appended to it
bucket(tb, prefix) == IF prefix \in DOMAIN tb THEN tb[prefix] ELSE << >>

\* s.tables[i][prefix] = append(s.tables[i][prefix], e)
appendTo(tb, prefix, e) ==
    [p \in DOMAIN tb \cup {prefix} |-> IF p = prefix THEN Append(bucket(tb, prefix), e)
                                       ELSE tb[p]]

\* sig after i rounds of "sig = (sig << 16) | (sig >> (64 - 16))"
RECURSIVE rotated(_, _)
rotated(sig, i) == IF i = 0 THEN sig ELSE With(rotate16(sig), LAMBDA next : rotated(next, i - 1))

\* the number of entries in the tables of one rotation
entries(tb) == Cardinality({<<p, k>> \in (DOMAIN tb) \X (1..MaxEntries) : k <= Len(tb[p])})

\* SmallStore3.Add: the entry appended in round i holds the rotated sig
SmallAdd(sig, doc) ==
    /\ pc = "idle"
    /\ entries(tables[0]) < MaxEntries
    /\ \E r \in {[i \in 0..3 |-> rotated(sig, i)]} :
          tables' = [i \in 0..3 |->
                        appendTo(tables[i], prefixOf(r[i]), [hash |-> r[i], doc |-> doc])]
    /\ added' = added \cup {[hash |-> sig, doc |-> doc]}
    /\ ret' = noRet
    /\ UNCHANGED <<impl, hint, docids, rhashes, panicked, finished, clean, finishes, calc>>
    /\ UNCHANGED finishVars

\* smallScan that leaves the loop at the first entry farther than 3
RECURSIVE smallScanBreak(_, _, _)
smallScanBreak(t, sig, k) ==
    IF k > Len(t) THEN << >>
    ELSE IF distance(t[k].hash, sig) <= 3 THEN <<t[k].doc>> \o smallScanBreak(t, sig, k + 1)
    ELSE << >>

\* the loop "for i := range t" of SmallStore3.Find
RECURSIVE smallScan(_, _, _)
smallScan(t, sig, k) ==
    IF k > Len(t) THEN << >>
    ELSE (IF distance(t[k].hash, sig) <= 3 THEN <<t[k].doc>> ELSE << >>)
         \o smallScan(t, sig, k + 1)

\* the slice docs of SmallStore3.Find before unique
RECURSIVE smallDocs(_, _, _)
smallDocs(tbs, sig, i) ==
    IF i >= 4 THEN << >>
    ELSE smallScan(bucket(tbs[i], prefixOf(sig)), sig, 1)
         \o With(rotate16(sig), LAMBDA next : smallDocs(tbs, next, i + 1))

\* the bag of the slice built from the set returned by unique
setBag(S) == [doc \in Docs |-> IF doc \in S THEN 1 ELSE 0]

\* SmallStore3.Find
SmallFind(sig) ==
    /\ pc = "idle"
    /\ ret' = [noRet EXCEPT !.op = "Find", !.sig = sig,
                             !.docs = setBag(unique(smallDocs(tables, sig, 0)))]
    /\ UNCHANGED <<impl, hint, docids, rhashes, panicked, finished, clean, added, calc>>
    /\ UNCHANGED <<tables, finishes>>
    /\ UNCHANGED finishVars

\* the outcomes of sort.Sort on every table of s.tables[i]
sortBuckets(tb) ==
    {g \in [DOMAIN tb -> UNION {sortTable(tb[p]) : p \in DOMAIN tb}] :
        \A p \in DOMAIN tb : g[p] \in sortTable(tb[p])}

\* SmallStore3.Finish
SmallFinish ==
    /\ pc = "idle"
    /\ \E g0 \in sortBuckets(tables[0]), g1 \in sortBuckets(tables[1]),
          g2 \in sortBuckets(tables[2]), g3 \in sortBuckets(tables[3]) :
          tables' = [i \in 0..3 |-> IF i = 0 THEN g0 ELSE IF i = 1 THEN g1
                                    ELSE IF i = 2 THEN g2 ELSE g3]
    /\ finishes' = IF finishes < 2 THEN finishes + 1 ELSE finishes
    /\ ret' = noRet
    /\ UNCHANGED <<impl, hint, docids, rhashes, panicked, finished, clean, added, calc>>
    /\ UNCHANGED finishVars

\* New3Small
InitSmall ==
    /\ impl = "generic"
    /\ hint = 8
    /\ docids = New3(hint).docids
    /\ rhashes = New3(hint).rhashes
    /\ panicked = FALSE
    /\ finished = FALSE
    /\ clean = FALSE
    /\ added = {}
    /\ ret = noRet
    /\ tables = noTables
    /\ finishes = 0
    /\ procs = 1
    /\ idleFinish
    /\ calc = noCalc

NextSmall ==
    \/ \E sig \in AddSigs, doc \in Docs : SmallAdd(sig, doc)
    \/ SmallFinish
    \/ \E sig \in Queries : SmallFind(sig)

SpecSmall == InitSmall /\ [][NextSmall]_vars

\* some table of SmallStore3 is not in ascending order
smallUnsorted ==
    \E i \in 0..3 : \E p \in DOMAIN tables[i] : ~sortedU64(hashesOf(tables[i][p]))

\* C4: whatever Finish calls were made, SmallStore3.Find(Q) holds exactly the
\* documents added with a fingerprint at distance at most 3 from Q, each once.
SmallExact ==
    ret.op = "Find" =>
        \A d \in Docs :
            ret.docs[d] = IF \E e \in added : e.doc = d /\ distance(e.hash, ret.sig) <= 3
                          THEN 1 ELSE 0

\* Find after two Finish calls and a later Add, on a table that is not
\* sorted: a document at distance 3 is returned, one at distance 4 is not
SmallExactWitness ==
    /\ ret.op = "Find"
    /\ finishes >= 2
    /\ smallUnsorted
    /\ \E e1, e2 \in added :
          /\ distance(e1.hash, ret.sig) = 3
          /\ ret.docs[e1.doc] = 1
          /\ distance(e2.hash, ret.sig) >= 4
          /\ ret.docs[e2.doc] = 0

----------------------------------------------------------------------------
(* Store.Finish, statement by statement                                     *)
(*                                                                          *)
(* pc is the position of the calling goroutine: "idle" before the call,     *)
(* "enter" at l.enter(), "add" at wg.Add(1), "go" at the go statement,      *)
(* "wait" at wg.Wait(), "done" after the return.  wst[t] is the position of *)
(* the goroutine started for table t: "none" not started, "run" before      *)
(* s.rhashes[t].finish(), "sorted" before l.leave(), "left" after it.  A    *)
(* goroutine that has executed l.leave() has one statement left, wg.Done(), *)
(* which does not depend on t: these goroutines are counted in leaving.     *)

\* the stores Finish is called on: the Add calls made before it
Loads == { << >>,
           <<[hash |-> flip({}), doc |-> "a"], [hash |-> flip({5}), doc |-> "b"]>> }

\* Store.Add for every entry of a load, from the result of New3
RECURSIVE loaded(_, _)
loaded(s, load) ==
    IF load = << >> THEN s
    ELSE With(permuted(Head(load).hash), LAMBDA ps :
            loaded([docids |-> Append(s.docids, Head(load)),
                    rhashes |-> [t \in Tbl |-> [s.rhashes[t] EXCEPT !.u = Append(@, ps[t + 1])]]],
                   Tail(load)))

\* the call: the test for the empty store (src/simstore.go only),
\* l := make(limiter, runtime.GOMAXPROCS(0)), sort.Sort(s.docids)
FinishCall ==
    /\ ~panicked
    /\ pc = "idle"
    /\ IF impl = "generic" /\ Len(docids) = 0
       THEN /\ pc' = "done"
            /\ finished' = TRUE
            /\ clean' = TRUE
            /\ UNCHANGED docids
       ELSE /\ docids' \in sortTable(docids)
            /\ pc' = "enter"
            /\ UNCHANGED <<finished, clean>>
    /\ before' = [docids |-> docids, rhashes |-> rhashes]
    /\ UNCHANGED <<impl, hint, rhashes, panicked, added, ret, tables, finishes, calc>>
    /\ UNCHANGED <<procs, fi, lim, wg, wst, leaving, sorts>>

\* l.enter() that does not block on a full channel
EnterUnbounded ==
    /\ ~panicked
    /\ pc = "enter"
    /\ lim' = lim + 1
    /\ pc' = "add"
    /\ UNCHANGED <<tables, finishes, calc, procs, fi, wg, wst, leaving, before, sorts>>
    /\ UNCHANGED storeVars

\* l.enter(): l <- struct{}{} blocks while the channel holds procs elements
Enter ==
    /\ ~panicked
    /\ pc = "enter"
    /\ lim < procs
    /\ lim' = lim + 1
    /\ pc' = "add"
    /\ UNCHANGED <<tables, finishes, calc, procs, fi, wg, wst, leaving, before, sorts>>
    /\ UNCHANGED storeVars

\* wg.Add(1)
WgAdd ==
    /\ ~panicked
    /\ pc = "add"
    /\ wg' = wg + 1
    /\ pc' = "go"
    /\ UNCHANGED <<tables, finishes, calc, procs, fi, lim, wst, leaving, before, sorts>>
    /\ UNCHANGED storeVars

\* go func(i int) { ... }(i), and the next round of "for i := range s.rhashes"
Go ==
    /\ ~panicked
    /\ pc = "go"
    /\ wst' = [wst EXCEPT ![fi] = "run"]
    /\ fi' = fi + 1
    /\ pc' = IF fi + 1 < 16 THEN "enter" ELSE "wait"
    /\ UNCHANGED <<tables, finishes, calc, procs, lim, wg, leaving, before, sorts>>
    /\ UNCHANGED storeVars

\* s.rhashes[i].finish() in the goroutine of table t
WorkerFinish(t) ==
    /\ ~panicked
    /\ wst[t] = "run"
    /\ IF rhashes[t].nil
       THEN /\ panicked' = TRUE
            /\ UNCHANGED <<rhashes, wst, sorts>>
       ELSE /\ rhashes' = [rhashes EXCEPT ![t].u = sortU64(@)]
            /\ wst' = [wst EXCEPT ![t] = "sorted"]
            /\ sorts' = [sorts EXCEPT ![t] = @ + 1]
            /\ UNCHANGED panicked
    /\ UNCHANGED <<impl, hint, docids, finished, clean, added, ret, tables, finishes, calc>>
    /\ UNCHANGED <<procs, pc, fi, lim, wg, leaving, before>>

\* l.leave() in the goroutine of table t: <-l blocks on an empty channel
WorkerLeave(t) ==
    /\ ~panicked
    /\ wst[t] = "sorted"
    /\ lim > 0
    /\ lim' = lim - 1
    /\ wst' = [wst EXCEPT ![t] = "left"]
    /\ leaving' = leaving + 1
    /\ UNCHANGED <<tables, finishes, calc, procs, pc, fi, wg, before, sorts>>
    /\ UNCHANGED storeVars

\* wg.Done() in a goroutine that has left the limiter
WorkerDone ==
    /\ ~panicked
    /\ leaving > 0
    /\ leaving' = leaving - 1
    /\ wg' = wg - 1
    /\ UNCHANGED <<tables, finishes, calc, procs, pc, fi, lim, wst, before, sorts>>
    /\ UNCHANGED storeVars

\* wg.Wait() that returns without waiting for the counter
WaitNoJoin ==
    /\ ~panicked
    /\ pc = "wait"
    /\ pc' = "done"
    /\ finished' = TRUE
    /\ clean' = TRUE
    /\ UNCHANGED <<impl, hint, docids, rhashes, panicked, added, ret, tables, finishes, calc>>
    /\ UNCHANGED <<procs, fi, lim, wg, wst, leaving, before, sorts>>

\* wg.Wait() returns when the counter is 0, and Finish returns
Wait ==
    /\ ~panicked
    /\ pc = "wait"
    /\ wg = 0
    /\ pc' = "done"
    /\ finished' = TRUE
    /\ clean' = TRUE
    /\ UNCHANGED <<impl, hint, docids, rhashes, panicked, added, ret, tables, finishes, calc>>
    /\ UNCHANGED <<procs, fi, lim, wg, wst, leaving, before, sorts>>

InitFinish ==
    /\ impl = "generic"
    /\ hint \in Hints
    /\ \E load \in (IF hint = 0 THEN {<< >>} ELSE Loads) :
          /\ docids = loaded(New3(hint), load).docids
          /\ rhashes = loaded(New3(hint), load).rhashes
          /\ added = {load[i] : i \in 1..Len(load)}
    /\ panicked = FALSE
    /\ finished = FALSE
    /\ clean = FALSE
    /\ ret = noRet
    /\ tables = noTables
    /\ finishes = 0
    /\ procs \in 1..MaxProcs
    /\ idleFinish
    /\ calc = noCalc

NextFinish ==
    \/ FinishCall
    \/ Enter
    \/ WgAdd
    \/ Go
    \/ \E t \in Tbl : WorkerFinish(t)
    \/ \E t \in Tbl : WorkerLeave(t)
    \/ WorkerDone
    \/ Wait

SpecFinish == InitFinish /\ [][NextFinish]_vars

\* the Go scheduler runs some goroutine whenever one can take a step
SpecFinishFair == SpecFinish /\ WF_vars(NextFinish)

----------------------------------------------------------------------------
(* properties of Store.Finish                                               *)

\* the goroutines admitted by l.enter() that have not executed l.leave()
working == {t \in Tbl : wst[t] \in {"run", "sorted"}}

\* C9: at most GOMAXPROCS goroutines are between l.enter() and l.leave(), and
\* every table is sorted by exactly one goroutine: never twice, and once when
\* Finish returns from a store that was not empty.
BoundedWorkers ==
    /\ Cardinality(working) <= procs
    /\ \A t \in Tbl : sorts[t] <= 1
    /\ (pc = "done" /\ Len(docids) > 0) => \A t \in Tbl : sorts[t] = 1

\* the limiter is full with two or more goroutines at work and the loop of
\* Finish is blocked in l.enter()
BoundedWorkersWitness ==
    /\ procs >= 2
    /\ Cardinality(working) = procs
    /\ lim = procs
    /\ pc = "enter"
    /\ fi < 16

\* u and v hold the same values the same number of times
sameBag(u, v) ==
    /\ Len(u) = Len(v)
    /\ \A i \in 1..Len(u) :
          Cardinality({j \in 1..Len(u) : u[j] = u[i]})
              = Cardinality({j \in 1..Len(v) : v[j] = u[i]})

\* Finish has returned from a store that was not empty
returned == pc = "done" /\ Len(docids) > 0

\* C10: Finish on a store that is not empty returns, and when it has returned
\* all 16 goroutines have completed, docids and every perm[t] are in ascending
\* order and hold what they held when Finish was called.
FinishJoins ==
    /\ [](returned =>
            /\ wg = 0 /\ lim = 0 /\ leaving = 0
            /\ \A t \in Tbl : wst[t] = "left"
            /\ sortedStore
            /\ sameBag(docids, before.docids)
            /\ \A t \in Tbl : sameBag(rhashes[t].u, before.rhashes[t].u))
    /\ ((pc = "enter" /\ Len(docids) > 0) ~> returned)

\* Finish has returned and the sorts have changed docids and a table
FinishJoinsWitness ==
    /\ returned
    /\ procs >= 2
    /\ docids # before.docids
    /\ \E t \in Tbl : rhashes[t].u # before.rhashes[t].u
    /\ sortedStore

============================================================================
